---- MODULE Spec2Model ----
(***************************************************************************)
(* A model of pdf-filler: the PDF helpers of utils_pdf.py (field walker,   *)
(* name cleaning, on-token discovery, checkbox classification, catalog     *)
(* extraction, geometry index, fill engine) and the catalog build of       *)
(* app.py.                                                                 *)
(*                                                                         *)
(* Python strings are sequences of one-character strings, so that strip(), *)
(* lower() and the parenthesis stripping of clean_field_name are computed  *)
(* and not assumed.  A pdfrw object is a record [t, s]: t is its kind      *)
(* (null, name, string, int) and s its raw text.                           *)
(***************************************************************************)
EXTENDS Integers, Sequences, FiniteSets, TLC

\* ------------------------------------------------------------------ bounds
\* Largest number of objects (field nodes and page annotations) of a template.
MaxNodes == 2
\* Largest number of kids of the field handed to get_checkbox_on_value.
MaxKids == 2
\* Largest number of tokens in a rule's checked or unchecked list.
MaxTokens == 2

\* Rows of the data table of a batch.
MaxRows == 2

\* ----------------------------------------------------------------- strings
Whitespace == {" ", "\t"}

UpperCase == <<"A","B","C","D","E","F","G","H","I","J","K","L","M",
               "N","O","P","Q","R","S","T","U","V","W","X","Y","Z">>
LowerCase == <<"a","b","c","d","e","f","g","h","i","j","k","l","m",
               "n","o","p","q","r","s","t","u","v","w","x","y","z">>

\* str.lower() on one character.
LowerChar(c) ==
  IF \E i \in 1..Len(UpperCase) : UpperCase[i] = c
  THEN LowerCase[CHOOSE i \in 1..Len(UpperCase) : UpperCase[i] = c]
  ELSE c

\* str.lower()
Lower(s) == [i \in 1..Len(s) |-> LowerChar(s[i])]

RECURSIVE LStrip(_)
LStrip(s) == IF s # <<>> /\ Head(s) \in Whitespace THEN LStrip(Tail(s)) ELSE s

RECURSIVE RStrip(_)
RStrip(s) ==
  IF s # <<>> /\ s[Len(s)] \in Whitespace THEN RStrip(SubSeq(s, 1, Len(s) - 1)) ELSE s

\* str.strip()
Strip(s) == RStrip(LStrip(s))

\* x in list
InList(x, lst) == \E i \in 1..Len(lst) : lst[i] = x

\* dict.get(key, default)
Get(d, key, default) == IF key \in DOMAIN d THEN d[key] ELSE default

\* ------------------------------------------------------------ pdfrw objects
PdfNone == [t |-> "null", s |-> <<>>]
PdfName(n) == [t |-> "name", s |-> <<n>>]
PdfInt(n) == [t |-> "int", s |-> <<n>>]
\* A PdfString holds its raw text, delimiters included: str() of the /T of a
\* field named Name is "(Name)".
PdfStr(raw) == [t |-> "string", s |-> raw]

\* PdfString.encode(text), for text without parentheses or backslashes.
PdfStringEncode(text) == PdfStr(<<"(">> \o text \o <<")">>)
\* PdfString.decode(v)
PdfStringDecode(v) ==
  IF Len(v.s) >= 2 /\ v.s[1] = "(" /\ v.s[Len(v.s)] = ")"
  THEN SubSeq(v.s, 2, Len(v.s) - 1)
  ELSE v.s

Off == "/Off"
Yes == "/Yes"
Btn == PdfName("/Btn")
Tx == PdfName("/Tx")
Widget == PdfName("/Widget")

\* An appearance dictionary /AP: absent, or present with the keys of its /N
\* sub-dictionary in stored order (no keys: /N absent or empty).
NoAP == [present |-> FALSE, N |-> <<>>]
APWith(keys) == [present |-> TRUE, N |-> keys]

\* -------------------------------------------------------------- utils_pdf.py
\* Mutant of is_xfa_pdf: the XFA entry is never looked at.
is_xfa_pdf_never(template) == FALSE

\* is_xfa_pdf(template)
is_xfa_pdf(template) == template.acro.present /\ template.acro.XFA

\* Mutant of iter_fields: a field is yielded after its kids.
RECURSIVE iter_fields_kids_first(_, _)
iter_fields_kids_first(obj, field_list) ==
  IF field_list = <<>> THEN <<>>
  ELSE LET f == Head(field_list)
           kids == obj[f].Kids
       IN  (IF kids # <<>> THEN iter_fields_kids_first(obj, kids) ELSE <<>>)
               \o <<f>> \o iter_fields_kids_first(obj, Tail(field_list))

\* iter_fields(field_list): the nodes in the order the generator yields them.
RECURSIVE iter_fields(_, _)
iter_fields(obj, field_list) ==
  IF field_list = <<>> THEN <<>>
  ELSE LET f == Head(field_list)
           kids == obj[f].Kids
       IN  <<f>> \o (IF kids # <<>> THEN iter_fields(obj, kids) ELSE <<>>)
               \o iter_fields(obj, Tail(field_list))

\* The result None of clean_field_name; a name it returns is never empty.
NoName == <<>>

\* clean_field_name(tval)
clean_field_name(tval) ==
  IF tval = PdfNone THEN NoName
  ELSE LET name == Strip(tval.s)
           inner == IF name # <<>> /\ Head(name) = "(" /\ name[Len(name)] = ")"
                    THEN SubSeq(name, 2, Len(name) - 1)
                    ELSE name
       IN  Strip(inner)

\* The first key of an /N dictionary other than /Off, or "" when there is none.
FirstNonOff(keys) ==
  IF \E i \in 1..Len(keys) : keys[i] # Off
  THEN keys[CHOOSE i \in 1..Len(keys) :
              keys[i] # Off /\ \A j \in 1..(i - 1) : keys[j] = Off]
  ELSE ""

\* The keys of node.AP.N as the two getattr calls read them.
NormalKeys(node) == IF node.AP.present THEN node.AP.N ELSE <<>>

\* Mutant of ScanKids: the kids are scanned last to first.
RECURSIVE ScanKidsReversed(_, _)
ScanKidsReversed(obj, kids) ==
  IF kids = <<>> THEN ""
  ELSE LET k == FirstNonOff(NormalKeys(obj[kids[Len(kids)]]))
       IN  IF k # "" THEN k ELSE ScanKidsReversed(obj, SubSeq(kids, 1, Len(kids) - 1))

\* The scan of the kids, in list order.
RECURSIVE ScanKids(_, _)
ScanKids(obj, kids) ==
  IF kids = <<>> THEN ""
  ELSE LET k == FirstNonOff(NormalKeys(obj[Head(kids)]))
       IN  IF k # "" THEN k ELSE ScanKids(obj, Tail(kids))

\* get_checkbox_on_value(field)
get_checkbox_on_value(obj, f) ==
  LET own == FirstNonOff(NormalKeys(obj[f]))
      fromKids == ScanKids(obj, obj[f].Kids)
  IN  IF own # "" THEN own
      ELSE IF fromKids # "" THEN fromKids
      ELSE Yes

\* Mutant of should_check: the unchecked list is looked at first.
should_check_unchecked_first(value, rule) ==
  LET v == Lower(Strip(value))
      checked_values == [i \in 1..Len(Get(rule, "checked_values", <<>>)) |->
                           Lower(Strip(rule["checked_values"][i]))]
      unchecked_values == [i \in 1..Len(Get(rule, "unchecked_values", <<>>)) |->
                             Lower(Strip(rule["unchecked_values"][i]))]
      default == Lower(Strip(Get(rule, "default", <<"o","f","f">>)))
  IN  IF InList(v, unchecked_values) THEN FALSE
      ELSE IF InList(v, checked_values) THEN TRUE
      ELSE default = <<"o","n">>

\* should_check(value, rule)
should_check(value, rule) ==
  LET v == Lower(Strip(value))
      checked_values == [i \in 1..Len(Get(rule, "checked_values", <<>>)) |->
                           Lower(Strip(rule["checked_values"][i]))]
      unchecked_values == [i \in 1..Len(Get(rule, "unchecked_values", <<>>)) |->
                             Lower(Strip(rule["unchecked_values"][i]))]
      default == Lower(Strip(Get(rule, "default", <<"o","f","f">>)))
  IN  IF InList(v, checked_values) THEN TRUE
      ELSE IF InList(v, unchecked_values) THEN FALSE
      ELSE default = <<"o","n">>

\* The (name, type) pairs of the nodes of ids, in order; with widgetsOnly (the
\* page scan) a node whose /Subtype is not /Widget is passed over.
RECURSIVE NameTypePairs(_, _, _)
NameTypePairs(obj, ids, widgetsOnly) ==
  IF ids = <<>> THEN <<>>
  ELSE LET a == obj[Head(ids)]
           nm == clean_field_name(a.T)
           ftype == IF a.FT = Btn THEN "checkbox_or_radio" ELSE "text"
           rest == NameTypePairs(obj, Tail(ids), widgetsOnly)
       IN  IF widgetsOnly /\ a.Subtype # Widget THEN rest
           ELSE IF nm = NoName THEN rest
           ELSE <<[nm |-> nm, tp |-> ftype]>> \o rest

\* The pairs of the widget annotations of every page, page by page.
RECURSIVE PagePairs(_, _)
PagePairs(obj, pages) ==
  IF pages = <<>> THEN <<>>
  ELSE NameTypePairs(obj, Head(pages), TRUE) \o PagePairs(obj, Tail(pages))

\* Mutant of MergeType: the first occurrence of a name decides its type.
MergeTypeFirstWins(merged, nm, tp) ==
  IF nm \notin DOMAIN merged THEN merged @@ (nm :> tp) ELSE merged

\* One step of the merge loop: what (nm, tp) does to merged.
MergeType(merged, nm, tp) ==
  IF nm \notin DOMAIN merged THEN merged @@ (nm :> tp)
  ELSE IF merged[nm] # "checkbox_or_radio" /\ tp = "checkbox_or_radio"
       THEN [merged EXCEPT ![nm] = tp]
       ELSE merged

\* Mutant of MergeFields: every occurrence of a name is appended to order.
RECURSIVE MergeFieldsAppendsAll(_, _, _)
MergeFieldsAppendsAll(fields, order, merged) ==
  IF fields = <<>> THEN [order |-> order, merged |-> merged]
  ELSE LET nm == Head(fields).nm
           tp == Head(fields).tp
       IN  MergeFieldsAppendsAll(Tail(fields), Append(order, nm), MergeType(merged, nm, tp))

\* The merge loop over fields, from (order, merged).
RECURSIVE MergeFields(_, _, _)
MergeFields(fields, order, merged) ==
  IF fields = <<>> THEN [order |-> order, merged |-> merged]
  ELSE LET nm == Head(fields).nm
           tp == Head(fields).tp
       IN  MergeFields(Tail(fields),
                       IF nm \notin DOMAIN merged THEN Append(order, nm) ELSE order,
                       MergeType(merged, nm, tp))

\* The list fields of extract_pdf_fields_all: AcroForm tree first, then pages.
ExtractedPairs(template) ==
  NameTypePairs(template.obj, iter_fields(template.obj, template.Fields), FALSE)
    \o PagePairs(template.obj, template.pages)

\* A function with no argument: an empty dict.
EmptyDict == <<>>

\* extract_pdf_fields_all(pdf_path): raised is the error message ("" when it
\* returns), order and merged the pair it returns.
extract_pdf_fields_all(template) ==
  IF ~template.acro.present
  THEN [raised |-> "PDF has no AcroForm fields (not standard fillable).",
        order |-> <<>>, merged |-> EmptyDict]
  ELSE IF is_xfa_pdf(template)
  THEN [raised |-> "This PDF is XFA. Convert to AcroForm first.",
        order |-> <<>>, merged |-> EmptyDict]
  ELSE LET m == MergeFields(ExtractedPairs(template), <<>>, EmptyDict)
       IN  [raised |-> "", order |-> m.order, merged |-> m.merged]

\* rect_to_list(r): the first four numbers, or <<>> (None) when r has fewer.
rect_to_list(r) == IF Len(r) >= 4 THEN SubSeq(r, 1, 4) ELSE <<>>

\* The loop over one page's annotations in build_field_rect_index.
RECURSIVE IndexAnnots(_, _, _, _)
IndexAnnots(obj, annots, pi, idx) ==
  IF annots = <<>> THEN idx
  ELSE LET a == obj[Head(annots)]
           nm == clean_field_name(a.T)
           r == rect_to_list(a.Rect)
           entry == [page |-> pi, rect |-> r]
           idx2 == IF a.Subtype # Widget \/ nm = NoName \/ r = <<>> THEN idx
                   ELSE IF nm \in DOMAIN idx
                        THEN [idx EXCEPT ![nm] = Append(@, entry)]
                        ELSE idx @@ (nm :> <<entry>>)
       IN  IndexAnnots(obj, Tail(annots), pi, idx2)

\* The loop over the pages, pi the 0-based index of the first page of pages.
RECURSIVE IndexPages(_, _, _, _)
IndexPages(obj, pages, pi, idx) ==
  IF pages = <<>> THEN idx
  ELSE IndexPages(obj, Tail(pages), pi + 1, IndexAnnots(obj, Head(pages), pi, idx))

\* build_field_rect_index(pdf_path): it has no raise statement.
build_field_rect_index(template) ==
  [raised |-> "",
   idx |-> IndexPages(template.obj, template.pages, 0, EmptyDict),
   page_count |-> Len(template.pages)]

\* The lexemes of a /DA string that the pattern -?\d+(?:\.\d+)? matches.
NumberLexemes == {"0", "10", "-12", "9.5"}

\* re.sub(r"(\s)(-?\d+(?:\.\d+)?)\s+Tf\b", r"\g<1>0 Tf", da_txt, count=1) on a
\* text given as its lexemes, a run of blanks being one lexeme.
SubFirstFontSize(da_txt) ==
  LET Match(i) == /\ i + 3 <= Len(da_txt)
                  /\ da_txt[i] \in {" ", "  "}
                  /\ da_txt[i + 1] \in NumberLexemes
                  /\ da_txt[i + 2] \in {" ", "  "}
                  /\ da_txt[i + 3] = "Tf"
  IN  IF \E i \in 1..Len(da_txt) : Match(i)
      THEN LET i == CHOOSE i \in 1..Len(da_txt) :
                      Match(i) /\ \A j \in 1..(i - 1) : ~Match(j)
           IN  [k \in 1..Len(da_txt) |->
                  IF k = i + 1 THEN "0" ELSE IF k = i + 2 THEN " " ELSE da_txt[k]]
      ELSE da_txt

\* _set_da_autosize(field): the field after the call.
set_da_autosize(field) ==
  IF field.DA = PdfNone \/ field.DA.s = <<>> THEN field
  ELSE LET da_txt == PdfStringDecode(field.DA)
           new_da == SubFirstFontSize(da_txt)
       IN  IF new_da # da_txt THEN [field EXCEPT !.DA = PdfStringEncode(new_da)]
           ELSE field

\* Mutant of DefaultRule: the default rule of the rules editor of app.py, which
\* also counts y and YES as checked.
DefaultRuleWithY ==
  [checked_values |-> << <<"y","e","s">>, <<"t","r","u","e">>, <<"1">>, <<"x">>,
                         <<"o","n">>, <<"c","h","e","c","k","e","d">>,
                         <<"m","a","l","e">>, <<"y">>, <<"Y","E","S">> >>,
   unchecked_values |-> << <<"n","o">>, <<"f","a","l","s","e">>, <<"0">>,
                           <<"o","f","f">>,
                           <<"u","n","c","h","e","c","k","e","d">>, <<>>,
                           <<"f","e","m","a","l","e">>, <<"n">>, <<"N","O">> >>,
   default |-> <<"o","f","f">>]

\* The rule fill_pdf_with_pdfrw uses for a field that rules has no entry for.
DefaultRule ==
  [checked_values |-> << <<"y","e","s">>, <<"t","r","u","e">>, <<"1">>, <<"x">>,
                         <<"o","n">>, <<"c","h","e","c","k","e","d">>,
                         <<"m","a","l","e">> >>,
   unchecked_values |-> << <<"n","o">>, <<"f","a","l","s","e">>, <<"0">>,
                           <<"o","f","f">>,
                           <<"u","n","c","h","e","c","k","e","d">>, <<>>,
                           <<"f","e","m","a","l","e">> >>,
   default |-> <<"o","f","f">>]

\* Mutant of Fills: a column missing from the row is read as a blank cell.
FillsMissingColumn(obj, f, data_row, mapping) ==
  LET nm == clean_field_name(obj[f].T)
  IN  /\ nm # NoName
      /\ nm \in DOMAIN mapping
      /\ mapping[nm] # ""

\* Whether the loop of fill_pdf_with_pdfrw fills node f: neither continue is
\* taken.
Fills(obj, f, data_row, mapping) ==
  LET nm == clean_field_name(obj[f].T)
  IN  /\ nm # NoName
      /\ nm \in DOMAIN mapping
      /\ mapping[nm] # ""
      /\ mapping[nm] \in DOMAIN data_row

\* The token the button branch writes for node f.
ButtonToken(obj, f, value, rules) ==
  LET nm == clean_field_name(obj[f].T)
      rule == Get(rules, nm, DefaultRule)
      on_val == get_checkbox_on_value(obj, f)
      do_check == should_check(value, rule)
  IN  IF do_check THEN on_val ELSE Off

\* Mutant of FillButton: only the field itself is written, never its kids.
FillButtonOwnOnly(obj, f, value, rules) ==
  LET tok == PdfName(ButtonToken(obj, f, value, rules))
  IN  [obj EXCEPT ![f].V = tok, ![f].AS = tok]

\* The button branch of the loop body: the objects after it.
FillButton(obj, f, value, rules) ==
  LET tok == PdfName(ButtonToken(obj, f, value, rules))
      kids == obj[f].Kids
  IN  [k \in DOMAIN obj |->
         IF k = f
         THEN IF kids # <<>> THEN [obj[k] EXCEPT !.V = tok]
              ELSE [obj[k] EXCEPT !.V = tok, !.AS = tok]
         ELSE IF InList(k, kids) THEN [obj[k] EXCEPT !.AS = tok]
         ELSE obj[k]]

\* Mutant of FillText: the read-only flag is left as it is.
FillTextKeepFf(obj, f, value) ==
  [obj EXCEPT ![f] = [set_da_autosize(obj[f]) EXCEPT
                        !.V = PdfStringEncode(value), !.AP = NoAP]]

\* The text branch of the loop body (force_autosize_text is left True).
FillText(obj, f, value) ==
  [obj EXCEPT ![f] = [set_da_autosize(obj[f]) EXCEPT
                        !.V = PdfStringEncode(value), !.AP = NoAP, !.Ff = PdfNone]]

\* Mutant of FillField: the read-only flag is cleared before the two continue
\* statements, so also on a node that is skipped.
FillFieldClearsFfFirst(obj, f, data_row, mapping, rules) ==
  IF ~Fills(obj, f, data_row, mapping) THEN [obj EXCEPT ![f].Ff = PdfNone]
  ELSE LET value == Get(data_row, mapping[clean_field_name(obj[f].T)], <<>>)
       IN  IF obj[f].FT = Btn THEN FillButton(obj, f, value, rules)
           ELSE FillText(obj, f, value)

\* One iteration of the loop of fill_pdf_with_pdfrw, on node f.
FillField(obj, f, data_row, mapping, rules) ==
  IF ~Fills(obj, f, data_row, mapping) THEN obj
  ELSE LET value == Get(data_row, mapping[clean_field_name(obj[f].T)], <<>>)
       IN  IF obj[f].FT = Btn THEN FillButton(obj, f, value, rules)
           ELSE FillText(obj, f, value)

\* Mutant of FillLoop: every node visited is counted.
RECURSIVE FillLoopCountsAll(_, _, _, _, _, _)
FillLoopCountsAll(obj, todo, filled_count, data_row, mapping, rules) ==
  IF todo = <<>> THEN [obj |-> obj, filled_count |-> filled_count]
  ELSE FillLoopCountsAll(FillField(obj, Head(todo), data_row, mapping, rules),
                         Tail(todo), filled_count + 1, data_row, mapping, rules)

\* The loop of fill_pdf_with_pdfrw over the nodes still to visit.
RECURSIVE FillLoop(_, _, _, _, _, _)
FillLoop(obj, todo, filled_count, data_row, mapping, rules) ==
  IF todo = <<>> THEN [obj |-> obj, filled_count |-> filled_count]
  ELSE LET f == Head(todo)
       IN  FillLoop(FillField(obj, f, data_row, mapping, rules), Tail(todo),
                    IF Fills(obj, f, data_row, mapping)
                    THEN filled_count + 1 ELSE filled_count,
                    data_row, mapping, rules)

\* Mutant of fill_pdf_with_pdfrw: an empty AcroForm.Fields is not an error.
fill_pdf_with_pdfrw_any_fields(template, data_row, mapping, rules) ==
  IF ~template.acro.present
  THEN [raised |-> "No AcroForm found in PDF.", count |-> 0,
        doc |-> template, written |-> FALSE]
  ELSE IF is_xfa_pdf(template)
  THEN [raised |-> "This PDF is XFA. Convert to AcroForm first.", count |-> 0,
        doc |-> template, written |-> FALSE]
  ELSE LET t1 == [template EXCEPT !.acro.NeedAppearances = TRUE]
           r == FillLoop(t1.obj, iter_fields(t1.obj, t1.Fields), 0,
                         data_row, mapping, rules)
       IN  [raised |-> "", count |-> r.filled_count,
            doc |-> [t1 EXCEPT !.obj = r.obj], written |-> TRUE]

\* fill_pdf_with_pdfrw(template_path, output_path, data_row, mapping, rules):
\* raised is the error message ("" when it returns), count the integer it
\* returns, doc the parsed document as the call leaves it, written whether
\* PdfWriter wrote doc to output_path.
fill_pdf_with_pdfrw(template, data_row, mapping, rules) ==
  IF ~template.acro.present
  THEN [raised |-> "No AcroForm found in PDF.", count |-> 0,
        doc |-> template, written |-> FALSE]
  ELSE IF is_xfa_pdf(template)
  THEN [raised |-> "This PDF is XFA. Convert to AcroForm first.", count |-> 0,
        doc |-> template, written |-> FALSE]
  ELSE LET t1 == [template EXCEPT !.acro.NeedAppearances = TRUE]
       IN  IF t1.Fields = <<>>
           THEN [raised |-> "AcroForm exists, but no fields found in AcroForm.Fields",
                 count |-> 0, doc |-> t1, written |-> FALSE]
           ELSE LET r == FillLoop(t1.obj, iter_fields(t1.obj, t1.Fields), 0,
                                  data_row, mapping, rules)
                IN  [raised |-> "", count |-> r.filled_count,
                     doc |-> [t1 EXCEPT !.obj = r.obj], written |-> TRUE]

\* ------------------------------------------------------------------- app.py
\* The catalog build of app.py: extract_pdf_fields_all, then
\* build_field_rect_index, in one try block; an exception of either is shown
\* with st.error and the script stops.
load_template(template) ==
  LET e == extract_pdf_fields_all(template)
      r == build_field_rect_index(template)
      failed == IF e.raised # "" THEN e.raised ELSE r.raised
  IN  IF failed # ""
      THEN [error |-> failed, stopped |-> TRUE, pdf_fields |-> <<>>,
            pdf_field_types |-> EmptyDict, rect_index |-> EmptyDict, page_count |-> 0]
      ELSE [error |-> "", stopped |-> FALSE, pdf_fields |-> e.order,
            pdf_field_types |-> e.merged, rect_index |-> r.idx,
            page_count |-> r.page_count]

\* str(n) of a natural number n
Digits == <<"0","1","2","3","4","5","6","7","8","9">>
RECURSIVE Decimal(_)
Decimal(n) ==
  IF n < 10 THEN <<Digits[n + 1]>>
  ELSE Decimal(n \div 10) \o <<Digits[(n % 10) + 1]>>

\* f"{n:03d}"
ZeroPad3(n) ==
  LET d == Decimal(n)
  IN  IF Len(d) >= 3 THEN d ELSE [i \in 1..(3 - Len(d)) |-> "0"] \o d

\* The characters that the pattern [^\w\-\. ]+ of safe_filename leaves alone.
FilenameChars ==
  {UpperCase[i] : i \in 1..Len(UpperCase)} \cup {LowerCase[i] : i \in 1..Len(LowerCase)}
    \cup {Digits[i] : i \in 1..Len(Digits)} \cup {"_", "-", ".", " "}

RECURSIVE SkipUnsafe(_)
SkipUnsafe(s) ==
  IF s # <<>> /\ Head(s) \notin FilenameChars THEN SkipUnsafe(Tail(s)) ELSE s

\* re.sub(r"[^\w\-\. ]+", "_", s)
RECURSIVE SubUnsafeRuns(_)
SubUnsafeRuns(s) ==
  IF s = <<>> THEN <<>>
  ELSE IF Head(s) \in FilenameChars THEN <<Head(s)>> \o SubUnsafeRuns(Tail(s))
  ELSE <<"_">> \o SubUnsafeRuns(SkipUnsafe(Tail(s)))

\* re.sub(r"\s+", " ", s)
RECURSIVE SubSpaceRuns(_)
SubSpaceRuns(s) ==
  IF s = <<>> THEN <<>>
  ELSE IF Head(s) \in Whitespace THEN <<" ">> \o SubSpaceRuns(LStrip(Tail(s)))
  ELSE <<Head(s)>> \o SubSpaceRuns(Tail(s))

max_len == 70

\* safe_filename(s)
safe_filename(s) ==
  LET s1 == Strip(s)
      s2 == SubUnsafeRuns(s1)
      s3 == Strip(SubSpaceRuns(s2))
  IN  IF s3 # <<>>
      THEN RStrip(SubSeq(s3, 1, IF Len(s3) < max_len THEN Len(s3) ELSE max_len))
      ELSE <<"r","o","w">>

\* os.path.join(tmp_dir, "template.pdf"): files of tmp_dir go by their name.
pdf_path == <<"t","e","m","p","l","a","t","e",".","p","d","f">>
DotPdf == <<".","p","d","f">>

\* The column names that hold a file name.
possible == {"File_No", "ID", "Name", "PDF_Name", "filename"}

\* c.split("::")[-1]: load_table_any puts the sheet name before a column of
\* a workbook sheet.
LastPart(c) == IF c = "Sheet1::ID" THEN "ID" ELSE c

RECURSIVE FirstPossible(_)
FirstPossible(columns) ==
  IF columns = <<>> THEN ""
  ELSE IF LastPart(Head(columns)) \in possible THEN Head(columns)
  ELSE FirstPossible(Tail(columns))

\* name_col of the batch ("" for None)
name_col(name_hint, columns) ==
  IF name_hint # "" /\ InList(name_hint, columns) THEN name_hint
  ELSE FirstPossible(columns)

\* fname of a row: its base name, numbered when the name is already used.
row_fname(row, row_no, nc, used_names) ==
  LET base == IF nc # "" /\ Strip(Get(row, nc, <<>>)) # <<>>
              THEN safe_filename(row[nc])
              ELSE <<"r","o","w","_">> \o ZeroPad3(row_no)
      Numbered(k) == base \o <<"_">> \o Decimal(k) \o DotPdf
  IN  IF (base \o DotPdf) \in used_names
      THEN Numbered(CHOOSE k \in 2..(Cardinality(used_names) + 2) :
                      /\ Numbered(k) \notin used_names
                      /\ \A j \in 2..(k - 1) : Numbered(j) \in used_names)
      ELSE base \o DotPdf

\* One pass of the loop of "Generate ZIP (all rows)" from the loop state b;
\* read_ok is whether reading the written file back (open and f.read())
\* succeeds.
generate_row(b, df_master, mapping, rules, read_ok) ==
  LET row_no == b.i + 1
      row == df_master[row_no]
      fname == row_fname(row, row_no, b.name_col, b.used_names)
      r == fill_pdf_with_pdfrw(b.tmp_dir[pdf_path], row, mapping, rules)
      ok_entry == [row |-> row_no, file |-> fname,
                   status |-> IF r.count > 0 THEN "OK" ELSE "ZERO_FILLED",
                   filled_fields |-> r.count, error |-> ""]
      error_entry(e) == [row |-> row_no, file |-> fname, status |-> "ERROR",
                         filled_fields |-> 0, error |-> e]
      written == (fname :> r.doc) @@ b.tmp_dir
      b1 == [b EXCEPT !.i = row_no, !.used_names = @ \cup {fname}]
  IN  IF r.raised # ""
      THEN [b1 EXCEPT !.report_rows = Append(@, error_entry(r.raised))]
      ELSE IF read_ok
      THEN [b1 EXCEPT !.tmp_dir = written,
                      !.report_rows = Append(@, ok_entry),
                      !.out_files = Append(@, [name |-> fname, data |-> written[fname]])]
      ELSE [b1 EXCEPT !.tmp_dir = written,
                      !.report_rows = @ \o <<ok_entry, error_entry("read failed")>>]

\* dict.items(): the entries of a dict as a list of (key, value) pairs, which
\* is how json.dumps writes an object.
RECURSIVE DictItems(_)
DictItems(d) ==
  IF DOMAIN d = {} THEN <<>>
  ELSE LET k == CHOOSE x \in DOMAIN d : TRUE
       IN  <<[key |-> k, value |-> d[k]]>>
             \o DictItems([x \in DOMAIN d \ {k} |-> d[x]])

\* The dict of a list of (key, value) pairs, which is how json.loads reads an
\* object: a later pair of a key replaces an earlier one.
RECURSIVE ItemsDict(_)
ItemsDict(items) ==
  IF items = <<>> THEN EmptyDict
  ELSE LET last == items[Len(items)]
       IN  (last.key :> last.value) @@ ItemsDict(SubSeq(items, 1, Len(items) - 1))

\* json.dumps(export_payload).encode("utf-8"): the text of the file, object
\* by object (well_formed: json.loads accepts it).
json_dumps(payload) ==
  [well_formed |-> TRUE, pdf_hash |-> payload.pdf_hash, excel_hash |-> payload.excel_hash,
   mapping |-> DictItems(payload.mapping), rules |-> DictItems(payload.rules),
   exported_at |-> payload.exported_at]

\* json.loads(raw.decode("utf-8")) of a text that json.loads accepts
json_loads(raw) ==
  [pdf_hash |-> raw.pdf_hash, excel_hash |-> raw.excel_hash,
   mapping |-> ItemsDict(raw.mapping), rules |-> ItemsDict(raw.rules),
   exported_at |-> raw.exported_at]

\* Mutant of export_payload: the rules are left out of the export.
export_payload_no_rules(session, files, now) ==
  [pdf_hash |-> files.pdf_hash, excel_hash |-> files.excel_hash,
   mapping |-> session.mapping, rules |-> EmptyDict, exported_at |-> now]

\* export_payload of the Export / Import expander
export_payload(session, files, now) ==
  [pdf_hash |-> files.pdf_hash, excel_hash |-> files.excel_hash,
   mapping |-> session.mapping, rules |-> session.rules, exported_at |-> now]

\* The entries of dict d whose key is in the set keys.
Restrict(d, keys) == [k \in keys |-> d[k]]

\* normalize_imported_schema(obj, df_columns, pdf_fields): a mapping entry
\* whose column is not in df_columns and a rule whose field is not in
\* pdf_fields are dropped, each with a warning.
normalize_imported_schema(obj, df_columns, pdf_fields) ==
  LET new_mapping ==
        Restrict(obj.mapping, {f \in DOMAIN obj.mapping : InList(obj.mapping[f], df_columns)})
      new_rules == Restrict(obj.rules, {f \in DOMAIN obj.rules : InList(f, pdf_fields)})
  IN  [new_mapping |-> new_mapping, new_rules |-> new_rules,
       warn |-> (DOMAIN obj.mapping \ DOMAIN new_mapping)
                  \cup (DOMAIN obj.rules \ DOMAIN new_rules)]

\* No import yet: st.session_state has no _last_import_hash.
NoImportHash == [set |-> FALSE, raw |-> json_dumps(
  [pdf_hash |-> "", excel_hash |-> "", mapping |-> EmptyDict, rules |-> EmptyDict,
   exported_at |-> ""])]

\* Mutant of import_mapping_json: the imported rules are not installed.
import_mapping_json_keeps_rules(session, raw, files) ==
  IF session.last_import_hash.set /\ session.last_import_hash.raw = raw
  THEN [session EXCEPT !.shown = [outcome |-> "already imported", warn |-> {},
                                  hash_mismatch |-> FALSE]]
  ELSE LET s1 == [session EXCEPT !.last_import_hash = [set |-> TRUE, raw |-> raw]]
       IN  IF ~raw.well_formed
           THEN [s1 EXCEPT !.shown = [outcome |-> "Invalid JSON", warn |-> {},
                                     hash_mismatch |-> FALSE]]
           ELSE LET obj == json_loads(raw)
                    n == normalize_imported_schema(obj, files.df_columns, files.pdf_fields)
                IN  [s1 EXCEPT !.mapping = n.new_mapping,
                               !.shown = [outcome |-> "Imported", warn |-> n.warn,
                                          hash_mismatch |->
                                            \/ (obj.pdf_hash # "" /\ obj.pdf_hash # files.pdf_hash)
                                            \/ (obj.excel_hash # ""
                                                  /\ obj.excel_hash # files.excel_hash)]]

\* The handler of "Import mapping_rules.json" on the uploaded bytes raw: a
\* file with the hash of the last import is not imported again; hashes are
\* taken to differ when the bytes do.
import_mapping_json(session, raw, files) ==
  IF session.last_import_hash.set /\ session.last_import_hash.raw = raw
  THEN [session EXCEPT !.shown = [outcome |-> "already imported", warn |-> {},
                                  hash_mismatch |-> FALSE]]
  ELSE LET s1 == [session EXCEPT !.last_import_hash = [set |-> TRUE, raw |-> raw]]
       IN  IF ~raw.well_formed
           THEN [s1 EXCEPT !.shown = [outcome |-> "Invalid JSON", warn |-> {},
                                     hash_mismatch |-> FALSE]]
           ELSE LET obj == json_loads(raw)
                    n == normalize_imported_schema(obj, files.df_columns, files.pdf_fields)
                IN  [s1 EXCEPT !.mapping = n.new_mapping,
                               !.rules = n.new_rules,
                               !.shown = [outcome |-> "Imported", warn |-> n.warn,
                                          hash_mismatch |->
                                            \/ (obj.pdf_hash # "" /\ obj.pdf_hash # files.pdf_hash)
                                            \/ (obj.excel_hash # ""
                                                  /\ obj.excel_hash # files.excel_hash)]]

\* ------------------------------------------------------------------- inputs
sName == <<"N","a","m","e">>
sAgree == <<"A","g","r","e","e">>

\* A node as PdfReader parses it; its /Kids are set by BuildTemplate.
Node(T, FT, AP, Ff, DA, Subtype, Rect) ==
  [T |-> T, FT |-> FT, Kids |-> <<>>, AP |-> AP, V |-> PdfNone, AS |-> PdfNone,
   Ff |-> Ff, DA |-> DA, Subtype |-> Subtype, Rect |-> Rect]

GoodRect == <<0, 0, 10, 10>>

\* The ascending sequence of a set of numbers.
RECURSIVE SetToSeq(_)
SetToSeq(S) ==
  IF S = {} THEN <<>>
  ELSE LET m == CHOOSE x \in S : \A y \in S : x <= y
       IN  <<m>> \o SetToSeq(S \ {m})

FormAcro == [present |-> TRUE, XFA |-> FALSE, NeedAppearances |-> FALSE]
NoAcro == [present |-> FALSE, XFA |-> FALSE, NeedAppearances |-> FALSE]
XfaAcro == [present |-> TRUE, XFA |-> TRUE, NeedAppearances |-> FALSE]

\* Where object k of a template sits: par is its parent in the field tree (0:
\* top level of AcroForm.Fields, -1: in no tree), page the page whose /Annots
\* lists it (0: none).  The template has two pages.
InTree(k) == {[par |-> p, page |-> 0] : p \in 0..(k - 1)}
OnPage == {[par |-> -1, page |-> 1], [par |-> -1, page |-> 2]}
TreeOrPage(k) == InTree(k) \cup {[par |-> 0, page |-> 1], [par |-> -1, page |-> 2]}
\* The places of object k in a template of the given sort.
Place(sort, k) ==
  IF sort = "tree" THEN InTree(k) ELSE IF sort = "page" THEN OnPage ELSE TreeOrPage(k)

\* The template of n = Len(kinds) objects laid out by layout.
BuildTemplate(acro, layout, kinds) ==
  LET n == Len(kinds)
      KidsOf(p) == SetToSeq({k \in 1..n : layout[k].par = p})
      Annots(g) == SetToSeq({k \in 1..n : layout[k].page = g})
  IN  [acro |-> acro, Fields |-> KidsOf(0), pages |-> <<Annots(1), Annots(2)>>,
       obj |-> [k \in 1..n |-> [kinds[k] EXCEPT !.Kids = KidsOf(k)]]]

\* The templates of n objects of the given kinds, each placed by Place(k).
TemplatesOfSize(n, acro, Kinds, sort) ==
  LET Pl == UNION {Place(sort, k) : k \in 1..n}
  IN  {BuildTemplate(acro, l, ks) :
         l \in {x \in [1..n -> Pl] : \A k \in 1..n : x[k] \in Place(sort, k)},
         ks \in [1..n -> Kinds]}

\* Templates with a form root and no XFA, and templates that the fatal checks
\* reject (at most two objects).
Templates(Kinds, sort) ==
  UNION {TemplatesOfSize(n, FormAcro, Kinds, sort) : n \in 0..MaxNodes}
FatalTemplates(Kinds, sort) ==
  UNION {TemplatesOfSize(n, a, Kinds, sort) : n \in 0..2, a \in {NoAcro, XfaAcro}}

\* Node kinds of the templates given to the catalog functions.
CatalogKinds ==
  { Node(PdfStr(<<"(">> \o sAgree \o <<")">>), Btn, NoAP, PdfNone, PdfNone, Widget, GoodRect),
    Node(PdfStr(<<"(", " ">> \o sAgree \o <<" ", ")">>), Tx, NoAP, PdfNone, PdfNone, Widget,
         <<0, 0, 10>>),
    Node(PdfStr(<<"(">> \o sName \o <<")">>), PdfNone, NoAP, PdfNone, PdfNone, Widget, GoodRect),
    Node(PdfStr(<<"(">> \o sAgree \o <<")">>), Btn, NoAP, PdfNone, PdfNone, PdfName("/Link"),
         GoodRect),
    Node(PdfStr(<<"(", " ", ")">>), Btn, NoAP, PdfNone, PdfNone, Widget, GoodRect),
    Node(PdfNone, Btn, NoAP, PdfNone, PdfNone, Widget, GoodRect) }

CatalogTemplates ==
  Templates(CatalogKinds, "either") \cup FatalTemplates(CatalogKinds, "either")
RectTemplates ==
  Templates(CatalogKinds, "page") \cup FatalTemplates(CatalogKinds, "page")

\* /AP dictionaries of the field and the kids given to get_checkbox_on_value.
APPool ==
  { NoAP, APWith(<<>>), APWith(<<Off>>), APWith(<<Off, "/On", "/1">>),
    APWith(<<"/Checkbox_40", Off>>) }

\* The templates of one top-level field (object 1) with up to MaxKids kids.
Groups(Kinds) ==
  UNION {{BuildTemplate(FormAcro, [k \in 1..n |-> [par |-> IF k = 1 THEN 0 ELSE 1, page |-> 0]],
                        ks) :
            ks \in [1..n -> Kinds]} : n \in 1..(MaxKids + 1)}

\* A button field (object 1) with its kids (objects 2..n).
OnTemplates ==
  Groups({Node(PdfNone, Btn, ap, PdfNone, PdfNone, Widget, GoodRect) : ap \in APPool})

\* Node kinds of the templates given to fill_pdf_with_pdfrw: a text field
\* Name, a button Agree, a button Agree with another on-token, a node named
\* Agree with no field type of its own, a widget with no name.
FillKinds ==
  { Node(PdfStr(<<"(">> \o sName \o <<")">>), Tx, APWith(<<>>), PdfInt("1"),
         PdfStr(<<"(", "/Helv", " ", "10", " ", "Tf", " ", "0", " ", "g", ")">>), Widget, GoodRect),
    Node(PdfStr(<<"(">> \o sAgree \o <<")">>), Btn, APWith(<<Off, Yes>>), PdfNone, PdfNone,
         Widget, GoodRect),
    Node(PdfStr(<<"(", " ">> \o sAgree \o <<")">>), Btn, APWith(<<"/On", Off>>), PdfInt("1"),
         PdfNone, Widget, GoodRect),
    Node(PdfStr(<<"(">> \o sAgree \o <<")">>), PdfNone, APWith(<<Off, "/1">>), PdfNone, PdfNone,
         Widget, GoodRect),
    Node(PdfNone, PdfNone, APWith(<<"/On", Off>>), PdfNone, PdfNone, Widget, GoodRect) }

\* Templates whose only object is an annotation of a page: the form root is
\* there and AcroForm.Fields is empty.
PageOnlyTemplates == TemplatesOfSize(1, FormAcro, FillKinds, "page")

FillTemplates ==
  Templates(FillKinds, "tree") \cup Groups(FillKinds) \cup FatalTemplates(FillKinds, "tree")
    \cup PageOnlyTemplates

\* Field trees given to iter_fields: every tree shape of up to MaxNodes + 2
\* nodes, the empty list among them.
WalkTemplates ==
  UNION {TemplatesOfSize(n, FormAcro,
                         {Node(PdfNone, PdfNone, NoAP, PdfNone, PdfNone, Widget, GoodRect)},
                         "tree") : n \in 0..(MaxNodes + 2)}

\* Templates of a batch: the example (Name and Agree), a template whose only
\* widget is on a page, and a button Agree without an on-key of its own over a
\* kid that carries the name, no field type, and the on-key /1.
BatchTemplates ==
  { BuildTemplate(FormAcro, <<[par |-> 0, page |-> 0], [par |-> 0, page |-> 0]>>,
      << Node(PdfStr(<<"(">> \o sName \o <<")">>), Tx, APWith(<<>>), PdfInt("1"), PdfNone,
              Widget, GoodRect),
         Node(PdfStr(<<"(">> \o sAgree \o <<")">>), Btn, APWith(<<Off, Yes>>), PdfNone,
              PdfNone, Widget, GoodRect) >>),
    BuildTemplate(FormAcro, <<[par |-> -1, page |-> 1]>>,
      << Node(PdfStr(<<"(">> \o sAgree \o <<")">>), Btn, APWith(<<Off, Yes>>), PdfNone,
              PdfNone, Widget, GoodRect) >>),
    BuildTemplate(FormAcro, <<[par |-> 0, page |-> 0], [par |-> 1, page |-> 0]>>,
      << Node(PdfStr(<<"(">> \o sAgree \o <<")">>), Btn, APWith(<<Off>>), PdfNone, PdfNone,
              PdfNone, GoodRect),
         Node(PdfStr(<<"(">> \o sAgree \o <<")">>), PdfNone, APWith(<<Off, "/1">>), PdfNone,
              PdfNone, Widget, GoodRect) >>) }

\* Cells of the file-name column of a batch.
FileNameCells ==
  { <<>>, <<" ","a","/","?">>, <<"t","e","m","p","l","a","t","e">> }

\* The data table of a batch: up to MaxRows rows of the columns FullName,
\* Consent and Sheet1::ID.
BatchColumns == <<"FullName", "Consent", "Sheet1::ID">>
BatchRows ==
  {("FullName" :> <<"A","d","a">>) @@ ("Consent" :> <<"t","r","u","e">>)
     @@ ("Sheet1::ID" :> c) : c \in FileNameCells}
BatchTables == UNION {[1..n -> BatchRows] : n \in 0..MaxRows}

\* The session's mapping at the click: the example's, one that names only a
\* field no template has, and none.
BatchMappings ==
  { (sName :> "FullName") @@ (sAgree :> "Consent"),
    (<<"Z","i","p">> :> "FullName"),
    EmptyDict }

\* The text of the file-name column input.
NameHints == {"", "FullName"}

\* The rule the rules form gives Agree when the user fills it in.
AgreeRule ==
  [checked_values |-> << <<"y">> >>, unchecked_values |-> << <<"n">> >>,
   default |-> <<"o","f","f">>]

\* The uploads of a session: one template (fields Name and Agree) and one of
\* two data files, the second without the column Consent.
SessionFiles ==
  { [pdf_hash |-> "pdf", excel_hash |-> "xlsx1", pdf_fields |-> <<sName, sAgree>>,
     df_columns |-> <<"FullName", "Consent">>],
    [pdf_hash |-> "pdf", excel_hash |-> "xlsx2", pdf_fields |-> <<sName, sAgree>>,
     df_columns |-> <<"FullName">>] }

\* What the user picks in the mapping form: a column for a field.
MappingChoices ==
  { [field |-> sName, column |-> "FullName"], [field |-> sAgree, column |-> "Consent"] }

\* Files to import that no export of the session wrote: a configuration made
\* for another template and data source, and a file that is not JSON.
ForeignFiles ==
  { json_dumps([pdf_hash |-> "other", excel_hash |-> "xlsx1",
                mapping |-> (sName :> "FullName") @@ (sAgree :> "Gone"),
                rules |-> (sAgree :> AgreeRule) @@ (<<"Z","i","p">> :> AgreeRule),
                exported_at |-> "t0"]),
    [NoImportHash.raw EXCEPT !.well_formed = FALSE] }

\* Cells of the column Consent.
ConsentCells ==
  { <<"Y">>, <<"t","r","u","e">>, <<>>, <<" ","Y","e","s">> }

\* Data rows: the columns FullName and Consent; no row has a column Gone.
DataRows ==
  {[FullName |-> <<"A","d","a">>, Consent |-> c] : c \in ConsentCells}

\* Mappings of field names to column names.
Mappings ==
  { (sName :> "FullName") @@ (sAgree :> "Consent"),
    (sName :> "FullName") @@ (sAgree :> "Gone"),
    (sName :> "") @@ (sAgree :> "Consent"),
    (sAgree :> "Consent") @@ (<<"Z","i","p">> :> "FullName") }

\* Rule sets: none, and one with a rule for Agree.
RuleSets ==
  { EmptyDict,
    (sAgree :> [checked_values |-> << <<"y">> >>,
                unchecked_values |-> << <<"t","r","u","e">> >>,
                default |-> <<"o","n">>]) }

\* Values and rules given to should_check.
CheckValues ==
  { <<>>, <<"y">>, <<" ","Y">>, <<"n">>, <<"N","\t">>, <<"q">> }
Tokens == { <<"Y"," ">>, <<"n">>, <<>> }
TokenLists == UNION {[1..n -> Tokens] : n \in 0..MaxTokens}
Defaults == { <<"o","n">>, <<"o","f","f">>, <<" ","O","N">> }
CheckRules ==
  {[checked_values |-> c, unchecked_values |-> u, default |-> d] :
     c \in TokenLists, u \in TokenLists, d \in Defaults}
  \cup {[checked_values |-> c] : c \in TokenLists}
  \cup {EmptyDict}

\* -------------------------------------------------------------------- state
VARIABLES
  op,        \* the operation that ran ("idle": none yet); "batch" while the
             \* loop of Generate ZIP runs, "session" while a session is open
  template,  \* the template file the operation read
  arg,       \* its other arguments; the uploads of a session
  ret        \* what it returned or raised; the loop state of a batch; the
             \* st.session_state of a session

vars == <<op, template, arg, ret>>

EmptyTemplate == BuildTemplate(FormAcro, <<>>, <<>>)

Init ==
  /\ op = "idle"
  /\ template = EmptyTemplate
  /\ arg = <<>>
  /\ ret = <<>>

\* should_check(value, rule)
ShouldCheck ==
  /\ op = "idle"
  /\ \E value \in CheckValues, rule \in CheckRules :
       /\ arg' = [value |-> value, rule |-> rule]
       /\ ret' = [do_check |-> should_check(value, rule)]
  /\ op' = "should_check"
  /\ UNCHANGED template

\* get_checkbox_on_value(field), field being object 1 of the template
GetCheckboxOnValue ==
  /\ op = "idle"
  /\ \E t \in OnTemplates :
       /\ template' = t
       /\ arg' = [field |-> 1]
       /\ ret' = [on_val |-> get_checkbox_on_value(t.obj, 1)]
  /\ op' = "get_checkbox_on_value"

\* extract_pdf_fields_all(pdf_path)
ExtractPdfFieldsAll ==
  /\ op = "idle"
  /\ \E t \in CatalogTemplates :
       /\ template' = t
       /\ ret' = extract_pdf_fields_all(t)
  /\ op' = "extract_pdf_fields_all"
  /\ UNCHANGED arg

\* build_field_rect_index(pdf_path)
BuildFieldRectIndex ==
  /\ op = "idle"
  /\ \E t \in RectTemplates :
       /\ template' = t
       /\ ret' = build_field_rect_index(t)
  /\ op' = "build_field_rect_index"
  /\ UNCHANGED arg

\* The catalog build of app.py on an uploaded template
LoadTemplate ==
  /\ op = "idle"
  /\ \E t \in CatalogTemplates :
       /\ template' = t
       /\ ret' = load_template(t)
  /\ op' = "load_template"
  /\ UNCHANGED arg

\* fill_pdf_with_pdfrw(template_path, output_path, data_row, mapping, rules)
FillPdfWithPdfrw ==
  /\ op = "idle"
  /\ \E t \in FillTemplates, data_row \in DataRows, mapping \in Mappings,
        rules \in RuleSets :
       /\ template' = t
       /\ arg' = [data_row |-> data_row, mapping |-> mapping, rules |-> rules]
       /\ ret' = fill_pdf_with_pdfrw(t, data_row, mapping, rules)
  /\ op' = "fill_pdf_with_pdfrw"

\* iter_fields(field_list), field_list being AcroForm.Fields or the /Kids of
\* a node (an absent list and an empty one are both <<>>)
IterFields ==
  /\ op = "idle"
  /\ \E t \in WalkTemplates :
       \E field_list \in {t.Fields} \cup {t.obj[f].Kids : f \in DOMAIN t.obj} :
         /\ template' = t
         /\ arg' = [field_list |-> field_list]
         /\ ret' = [yielded |-> iter_fields(t.obj, field_list)]
  /\ op' = "iter_fields"

\* The click on "Generate ZIP (all rows)" up to the loop: without a mapping
\* the script warns and stops.
GenerateZipStart ==
  /\ op = "idle"
  /\ \E t \in BatchTemplates, df_master \in BatchTables, mapping \in BatchMappings,
        name_hint \in NameHints :
       /\ template' = t
       /\ arg' = [df_master |-> df_master, mapping |-> mapping, rules |-> EmptyDict,
                  name_hint |-> name_hint]
       /\ IF mapping = EmptyDict
          THEN /\ op' = "batch_stopped"
               /\ ret' = [warning |-> "Map at least one field first."]
          ELSE /\ op' = "batch"
               /\ ret' = [i |-> 0, name_col |-> name_col(name_hint, BatchColumns),
                          used_names |-> {}, report_rows |-> <<>>, out_files |-> <<>>,
                          tmp_dir |-> (pdf_path :> t), zip |-> <<>>]

\* One pass of the loop over the rows
GenerateZipRow ==
  /\ op = "batch"
  /\ ret.i < Len(arg.df_master)
  /\ \E read_ok \in BOOLEAN :
       ret' = generate_row(ret, arg.df_master, arg.mapping, arg.rules, read_ok)
  /\ UNCHANGED <<op, template, arg>>

\* After the loop: the report and the mapping join the files of the ZIP.
GenerateZipEnd ==
  /\ op = "batch"
  /\ ret.i = Len(arg.df_master)
  /\ ret' = [ret EXCEPT !.zip =
               [k \in 1..Len(ret.out_files) |-> ret.out_files[k].name]
                 \o << <<"_","R","E","P","O","R","T",".","c","s","v">>,
                       <<"m","a","p","p","i","n","g","_","r","u","l","e","s",".","j","s","o","n">> >>]
  /\ op' = "batch_done"
  /\ UNCHANGED <<template, arg>>

\* The script up to the session state init, for a session's first uploads
OpenSession ==
  /\ op = "idle"
  /\ \E files \in SessionFiles :
       arg' = [files |-> files]
  /\ ret' = [mapping |-> EmptyDict, rules |-> EmptyDict, last_import_hash |-> NoImportHash,
             exported |-> [made |-> FALSE, raw |-> NoImportHash.raw,
                           mapping |-> EmptyDict, rules |-> EmptyDict,
                           files |-> CHOOSE f \in SessionFiles : TRUE],
             shown |-> [outcome |-> "", warn |-> {}, hash_mismatch |-> FALSE]]
  /\ op' = "session"
  /\ UNCHANGED template

\* The user uploads the other data file; st.session_state stays.
UploadData ==
  /\ op = "session"
  /\ \E files \in SessionFiles \ {arg.files} : arg' = [files |-> files]
  /\ ret' = [ret EXCEPT !.shown = [outcome |-> "", warn |-> {}, hash_mismatch |-> FALSE]]
  /\ UNCHANGED <<op, template>>

\* The user picks a column for a field in the mapping form.
EditMapping ==
  /\ op = "session"
  /\ \E c \in MappingChoices :
       /\ InList(c.field, arg.files.pdf_fields)
       /\ InList(c.column, arg.files.df_columns)
       /\ ret' = [ret EXCEPT !.mapping = (c.field :> c.column) @@ @,
                             !.shown = [outcome |-> "", warn |-> {}, hash_mismatch |-> FALSE]]
  /\ UNCHANGED <<op, template, arg>>

\* The user fills in the rule form of the checkbox field Agree.
EditRule ==
  /\ op = "session"
  /\ ret' = [ret EXCEPT !.rules = (sAgree :> AgreeRule) @@ @,
                        !.shown = [outcome |-> "", warn |-> {}, hash_mismatch |-> FALSE]]
  /\ UNCHANGED <<op, template, arg>>

\* The user downloads the export ("Export mapping_rules.json"); exported
\* keeps the file and what the session held when it was written.
ExportMappingJson ==
  /\ op = "session"
  /\ ret' = [ret EXCEPT !.exported =
               [made |-> TRUE, raw |-> json_dumps(export_payload(ret, arg.files, "t1")),
                mapping |-> ret.mapping, rules |-> ret.rules, files |-> arg.files],
                        !.shown = [outcome |-> "", warn |-> {}, hash_mismatch |-> FALSE]]
  /\ UNCHANGED <<op, template, arg>>

\* The user gives a file to "Import mapping_rules.json": the export they
\* hold, or a foreign file.
ImportMappingJson ==
  /\ op = "session"
  /\ \E raw \in ForeignFiles \cup (IF ret.exported.made THEN {ret.exported.raw} ELSE {}) :
       ret' = import_mapping_json(ret, raw, arg.files)
  /\ UNCHANGED <<op, template, arg>>

Next ==
  \/ OpenSession
  \/ UploadData
  \/ EditMapping
  \/ EditRule
  \/ ExportMappingJson
  \/ ImportMappingJson
  \/ GenerateZipStart
  \/ GenerateZipRow
  \/ GenerateZipEnd
  \/ IterFields
  \/ ShouldCheck
  \/ GetCheckboxOnValue
  \/ ExtractPdfFieldsAll
  \/ BuildFieldRectIndex
  \/ LoadTemplate
  \/ FillPdfWithPdfrw

Spec == Init /\ [][Next]_vars

\* =================================================================== claims
Range(seq) == {seq[i] : i \in 1..Len(seq)}

\* The nodes of the AcroForm tree, which iter_fields visits.
Visited(t) == Range(iter_fields(t.obj, t.Fields))

\* The widget annotations of the pages.
PageWidgets(t) ==
  {a \in UNION {Range(t.pages[g]) : g \in 1..Len(t.pages)} : t.obj[a].Subtype = Widget}

\* The template has no form root, or a non-null XFA entry under it.
Fatal(t) == ~t.acro.present \/ t.acro.XFA

Extracted == op = "extract_pdf_fields_all" /\ ret.raised = ""

\* ----------------------------------------------------------------------- C1
\* The prefixes of the pair list of the template, merged.
MergedAfter(i) ==
  MergeFields(SubSeq(ExtractedPairs(template), 1, i), <<>>, EmptyDict).merged

\* C1: in extract_pdf_fields_all, a name that any visited node (tree node or
\* page widget annotation) carries with field type Btn has the type
\* checkbox_or_radio in the returned map, whatever the order of the nodes that
\* share the name; and during the merge an entry that is checkbox_or_radio
\* stays checkbox_or_radio.
C1_ButtonDominates ==
  Extracted =>
    /\ \A f \in Visited(template) \cup PageWidgets(template) :
         LET nm == clean_field_name(template.obj[f].T)
         IN  (nm # NoName /\ template.obj[f].FT = Btn) =>
               (nm \in DOMAIN ret.merged /\ ret.merged[nm] = "checkbox_or_radio")
    /\ \A i \in 0..Len(ExtractedPairs(template)) :
         \A nm \in DOMAIN MergedAfter(i) :
           MergedAfter(i)[nm] = "checkbox_or_radio" =>
             ret.merged[nm] = "checkbox_or_radio"

\* C1 witness: a name whose first node in visiting order is a text node and
\* whose later node is a button, and a name for which it is the other way round
\* would be the same state with the two nodes exchanged.
C1_Witness ==
  /\ Extracted
  /\ Len(template.Fields) = 2
  /\ LET a == template.obj[template.Fields[1]]
         b == template.obj[template.Fields[2]]
     IN  /\ clean_field_name(a.T) = sAgree
         /\ clean_field_name(b.T) = sAgree
         /\ a.FT # Btn
         /\ b.FT = Btn
  /\ ret.merged[sAgree] = "checkbox_or_radio"

\* ----------------------------------------------------------------------- C2
\* A value matches a token case-insensitively, nothing else being ignored.
MatchesIgnoringCase(value, tokens) ==
  \E i \in 1..Len(tokens) : Lower(value) = Lower(tokens[i])

\* A value matches a token once both are trimmed and lower-cased.
MatchesTrimmed(value, tokens) ==
  \E i \in 1..Len(tokens) : Lower(Strip(value)) = Lower(Strip(tokens[i]))

\* C2 as stated: checked if the value matches a checked token
\* case-insensitively, else unchecked if it matches an unchecked token, else
\* true iff the default is "on".
C2_Original ==
  op = "should_check" =>
    LET checked == Get(arg.rule, "checked_values", <<>>)
        unchecked == Get(arg.rule, "unchecked_values", <<>>)
        default == Get(arg.rule, "default", <<"o","f","f">>)
    IN  ret.do_check =
          (IF MatchesIgnoringCase(arg.value, checked) THEN TRUE
           ELSE IF MatchesIgnoringCase(arg.value, unchecked) THEN FALSE
           ELSE default = <<"o","n">>)

\* C2 amended: should_check returns exactly one boolean, decided in this order:
\* true if the value, trimmed and lower-cased, equals a checked token trimmed
\* and lower-cased (even when it also equals an unchecked one); otherwise false
\* if it so equals an unchecked token; otherwise true iff the rule's default,
\* trimmed and lower-cased, is "on" (a missing default is "off").
C2_Amended ==
  op = "should_check" =>
    LET checked == Get(arg.rule, "checked_values", <<>>)
        unchecked == Get(arg.rule, "unchecked_values", <<>>)
        default == Get(arg.rule, "default", <<"o","f","f">>)
    IN  /\ ret.do_check \in BOOLEAN
        /\ MatchesTrimmed(arg.value, checked) => ret.do_check = TRUE
        /\ (~MatchesTrimmed(arg.value, checked) /\ MatchesTrimmed(arg.value, unchecked)) =>
             ret.do_check = FALSE
        /\ (~MatchesTrimmed(arg.value, checked) /\ ~MatchesTrimmed(arg.value, unchecked)) =>
             ret.do_check = (Lower(Strip(default)) = <<"o","n">>)

\* C2 witness: a value that matches a token of both lists, only after trimming
\* and lower-casing, is checked.
C2_Witness ==
  /\ op = "should_check"
  /\ arg.value = <<" ","Y">>
  /\ arg.rule = [checked_values |-> << <<"n">>, <<"Y"," ">> >>,
                 unchecked_values |-> << <<"Y"," ">> >>,
                 default |-> <<"o","f","f">>]
  /\ ret.do_check = TRUE

\* ----------------------------------------------------------------------- C3
HasOnKey(node) == node.AP.present /\ \E i \in 1..Len(node.AP.N) : node.AP.N[i] # Off

\* The first key other than /Off of the /N dictionary of a node that has one.
FirstOnKey(node) ==
  node.AP.N[CHOOSE i \in 1..Len(node.AP.N) :
              node.AP.N[i] # Off /\ \A j \in 1..(i - 1) : node.AP.N[j] = Off]

\* C3: get_checkbox_on_value never returns /Off; it returns the first key other
\* than /Off of the field's own /AP /N if there is one, otherwise that of the
\* first kid, in list order, that has one, otherwise /Yes.
C3_OnValue ==
  op = "get_checkbox_on_value" =>
    LET field == template.obj[arg.field]
        kids == field.Kids
        withKey == {i \in 1..Len(kids) : HasOnKey(template.obj[kids[i]])}
    IN  /\ ret.on_val # Off
        /\ HasOnKey(field) => ret.on_val = FirstOnKey(field)
        /\ (~HasOnKey(field) /\ withKey # {}) =>
             ret.on_val =
               FirstOnKey(template.obj[kids[CHOOSE i \in withKey : \A j \in withKey : i <= j]])
        /\ (~HasOnKey(field) /\ withKey = {}) => ret.on_val = Yes

\* C3 witness: the field's own /N holds only /Off, its first kid has no key
\* other than /Off, and the second kid's key is returned.
C3_Witness ==
  /\ op = "get_checkbox_on_value"
  /\ Len(template.obj[1].Kids) = 2
  /\ template.obj[1].AP = APWith(<<Off>>)
  /\ ~HasOnKey(template.obj[2])
  /\ template.obj[3].AP = APWith(<<Off, "/On", "/1">>)
  /\ ret.on_val = "/On"

\* ------------------------------------------------------------- fill claims
Filled == op = "fill_pdf_with_pdfrw" /\ ret.raised = ""

\* The cleaned name of node f of the template.
NameOf(f) == clean_field_name(template.obj[f].T)

\* Node f's name is mapped to a column present in the row.
Mapped(f) ==
  /\ NameOf(f) # NoName
  /\ NameOf(f) \in DOMAIN arg.mapping
  /\ arg.mapping[NameOf(f)] \in DOMAIN arg.data_row

\* Node f's name is mapped to a column that the row does not have.
MappedToMissing(f) ==
  /\ NameOf(f) # NoName
  /\ NameOf(f) \in DOMAIN arg.mapping
  /\ arg.mapping[NameOf(f)] \notin DOMAIN arg.data_row

IsButton(f) == template.obj[f].FT = Btn

\* The row's cell for node f.
CellOf(f) == arg.data_row[arg.mapping[NameOf(f)]]

\* The token a cell gives button f: the on-token discovered on the template
\* when the cell is classified checked, /Off otherwise.
TokenFor(f, cell) ==
  IF should_check(cell, Get(arg.rules, NameOf(f), DefaultRule))
  THEN PdfName(get_checkbox_on_value(template.obj, f))
  ELSE PdfName(Off)

KidsOfNode(f) == Range(template.obj[f].Kids)

\* The parent of node k is a button that the call fills.
KidOfFilledButton(k) ==
  \E f \in Visited(template) : k \in KidsOfNode(f) /\ IsButton(f) /\ Mapped(f)

\* ----------------------------------------------------------------------- C4
\* C4 as stated: after the call every filled button has the token as /V, every
\* kid of it has the token as /AS, and a button without kids has it as its own
\* /AS.
C4_Original ==
  Filled =>
    \A f \in Visited(template) :
      (IsButton(f) /\ Mapped(f)) =>
        LET tok == TokenFor(f, CellOf(f))
        IN  /\ ret.doc.obj[f].V = tok
            /\ \A k \in KidsOfNode(f) : ret.doc.obj[k].AS = tok
            /\ KidsOfNode(f) = {} => ret.doc.obj[f].AS = tok

\* C4 amended: after the call every filled button has the token as /V; a
\* button without kids has it as its own /AS; every kid of a filled button has
\* the parent's token as /AS, except a kid that is itself a filled button
\* without kids, whose /AS is the token of its own, later visit.
C4_Amended ==
  Filled =>
    \A f \in Visited(template) :
      (IsButton(f) /\ Mapped(f)) =>
        LET tok == TokenFor(f, CellOf(f))
        IN  /\ ret.doc.obj[f].V = tok
            /\ \A k \in KidsOfNode(f) :
                 IF IsButton(k) /\ Mapped(k) /\ KidsOfNode(k) = {}
                 THEN ret.doc.obj[k].AS = TokenFor(k, CellOf(k))
                 ELSE ret.doc.obj[k].AS = tok
            /\ KidsOfNode(f) = {} => ret.doc.obj[f].AS = tok

\* C4 witness: a checked button with two kids, one a widget without a name and
\* one a filled button with another on-token.
C4_Witness ==
  /\ Filled
  /\ \E f \in Visited(template) :
       /\ IsButton(f) /\ Mapped(f)
       /\ ret.doc.obj[f].V = PdfName(Yes)
       /\ Cardinality(KidsOfNode(f)) = 2
       /\ \E k \in KidsOfNode(f) : NameOf(k) = NoName /\ ret.doc.obj[k].AS = PdfName(Yes)
       /\ \E k \in KidsOfNode(f) : IsButton(k) /\ Mapped(k) /\ ret.doc.obj[k].AS = PdfName("/On")

\* ----------------------------------------------------------------------- C5
\* The template has a form root, no XFA and a non-empty AcroForm.Fields.
Fillable(t) == ~Fatal(t) /\ t.Fields # <<>>

SameButAS(f) ==
  /\ ret.doc.obj[f].V = template.obj[f].V
  /\ ret.doc.obj[f].AP = template.obj[f].AP
  /\ ret.doc.obj[f].DA = template.obj[f].DA
  /\ ret.doc.obj[f].Ff = template.obj[f].Ff

\* C5 as stated: a node that is unmapped or mapped to a missing column keeps
\* all its attributes, is not counted, and no error is raised.
C5_Original ==
  (op = "fill_pdf_with_pdfrw" /\ Fillable(template)) =>
    /\ ret.raised = ""
    /\ ret.count = Cardinality({f \in Visited(template) : Mapped(f)})
    /\ \A f \in Visited(template) :
         ~Mapped(f) => (SameButAS(f) /\ ret.doc.obj[f].AS = template.obj[f].AS)

\* C5 amended: a node that is unmapped or mapped to a missing column is passed
\* over: its value, appearance dictionary, default appearance and flags are
\* not changed, it is not counted and no error is raised; its appearance state
\* is not changed either unless it is a kid of a button that is filled, which
\* writes the appearance state of its kids.
C5_Amended ==
  (op = "fill_pdf_with_pdfrw" /\ Fillable(template)) =>
    /\ ret.raised = ""
    /\ ret.count = Cardinality({f \in Visited(template) : Mapped(f)})
    /\ \A f \in Visited(template) :
         ~Mapped(f) =>
           /\ SameButAS(f)
           /\ ~KidOfFilledButton(f) => ret.doc.obj[f].AS = template.obj[f].AS

\* C5 witness: a text field with a read-only flag that is not mapped keeps it,
\* beside a field that is filled.
C5_Witness ==
  /\ Filled
  /\ ret.count = 1
  /\ \E f \in Visited(template) :
       /\ NameOf(f) = sName
       /\ sName \notin DOMAIN arg.mapping
       /\ template.obj[f].Ff = PdfInt("1")
       /\ ret.doc.obj[f] = template.obj[f]

\* ----------------------------------------------------------------------- C6
\* C6 as stated: a field mapped to a column that the row lacks is filled from
\* the empty string, and the call does not fail.
C6_Original ==
  (op = "fill_pdf_with_pdfrw" /\ Fillable(template)) =>
    /\ ret.raised = ""
    /\ \A f \in Visited(template) :
         MappedToMissing(f) =>
           ret.doc.obj[f].V =
             (IF IsButton(f) THEN TokenFor(f, <<>>) ELSE PdfStringEncode(<<>>))

\* C6 amended: a field mapped to a column that the row lacks is passed over:
\* no value is written to it, its appearance dictionary, default appearance
\* and flags stay, and the call does not fail because of the missing column.
C6_Amended ==
  (op = "fill_pdf_with_pdfrw" /\ Fillable(template)) =>
    /\ ret.raised = ""
    /\ \A f \in Visited(template) : MappedToMissing(f) => SameButAS(f)

\* C6 witness: a text-typed node and a button, both mapped to the missing
\* column Gone, after a call that returned.
C6_Witness ==
  /\ Filled
  /\ \E f, g \in Visited(template) :
       /\ MappedToMissing(f) /\ MappedToMissing(g)
       /\ arg.mapping[NameOf(f)] = "Gone"
       /\ IsButton(f) /\ ~IsButton(g)
       /\ ret.doc.obj[f].V = PdfNone /\ ret.doc.obj[g].V = PdfNone

\* ----------------------------------------------------------------------- C7
\* The template of the end-to-end example: Name (text) and Agree (button with
\* the appearance keys Off and Yes), both mapped to columns of the row.
IsExample ==
  /\ Len(template.Fields) = 2
  /\ DOMAIN template.obj = 1..2
  /\ NameOf(template.Fields[1]) = sName /\ template.obj[template.Fields[1]].FT = Tx
  /\ NameOf(template.Fields[2]) = sAgree /\ template.obj[template.Fields[2]].FT = Btn
  /\ template.obj[template.Fields[2]].AP = APWith(<<Off, Yes>>)
  /\ arg.mapping = (sName :> "FullName") @@ (sAgree :> "Consent")

\* C7: the integer returned is the number of nodes visited whose name is
\* mapped to a column of the row, which is the number of nodes written; a
\* mapping entry for a field the template lacks adds nothing; the example
\* yields 2.
C7_Count ==
  Filled =>
    /\ ret.count = Cardinality({f \in Visited(template) : Mapped(f)})
    /\ ret.count = Cardinality({f \in DOMAIN template.obj :
                                  ret.doc.obj[f].V # template.obj[f].V})
    /\ IsExample => ret.count = 2

\* C7 witness: the example, filled.
C7_Witness == Filled /\ IsExample /\ ret.count = 2

\* ----------------------------------------------------------------------- C8
\* The checked tokens of the default rule, as the claim lists them.
ClaimedChecked ==
  { <<"y","e","s">>, <<"t","r","u","e">>, <<"1">>, <<"x">>, <<"o","n">>,
    <<"c","h","e","c","k","e","d">>, <<"m","a","l","e">> }

\* A filled button whose name rules has no entry for.
DefaultRuled(f) == IsButton(f) /\ Mapped(f) /\ NameOf(f) \notin DOMAIN arg.rules

\* C8 as stated: such a button is checked iff the cell is a case-insensitive
\* exact match of a checked token of the default rule.
C8_Original ==
  Filled =>
    \A f \in Visited(template) :
      DefaultRuled(f) =>
        ret.doc.obj[f].V =
          (IF Lower(CellOf(f)) \in ClaimedChecked
           THEN PdfName(get_checkbox_on_value(template.obj, f))
           ELSE PdfName(Off))

\* C8 amended: such a button is checked (its value is the discovered on-token)
\* iff the cell, with surrounding whitespace trimmed, is a case-insensitive
\* match of one of yes, true, 1, x, on, checked, male; every other cell, "Y" and
\* the empty string among them, gives /Off.
C8_Amended ==
  Filled =>
    \A f \in Visited(template) :
      DefaultRuled(f) =>
        ret.doc.obj[f].V =
          (IF Lower(Strip(CellOf(f))) \in ClaimedChecked
           THEN PdfName(get_checkbox_on_value(template.obj, f))
           ELSE PdfName(Off))

\* C8 witness: the example with the cell "Y": Agree is /Off.
C8_Witness ==
  /\ Filled /\ IsExample
  /\ arg.rules = EmptyDict
  /\ arg.data_row.Consent = <<"Y">>
  /\ ret.doc.obj[template.Fields[2]].V = PdfName(Off)

\* ----------------------------------------------------------------------- C9
\* C9: after the call a filled node that is not a button has the row's cell
\* as value, no appearance dictionary and no flags.
C9_TextFill ==
  Filled =>
    \A f \in Visited(template) :
      (~IsButton(f) /\ Mapped(f)) =>
        /\ ret.doc.obj[f].V.t = "string"
        /\ PdfStringDecode(ret.doc.obj[f].V) = CellOf(f)
        /\ ~ret.doc.obj[f].AP.present
        /\ ret.doc.obj[f].Ff = PdfNone

\* C9 witness: the text field Name, which had an appearance dictionary and a
\* read-only flag, filled with "Ada".
C9_Witness ==
  /\ Filled
  /\ \E f \in Visited(template) :
       /\ NameOf(f) = sName /\ Mapped(f)
       /\ template.obj[f].AP.present /\ template.obj[f].Ff = PdfInt("1")
       /\ PdfStringDecode(ret.doc.obj[f].V) = <<"A","d","a">>
       /\ ret.doc.obj[f].AP = NoAP /\ ret.doc.obj[f].Ff = PdfNone

\* ---------------------------------------------------------------------- C10
\* What C10 and its amendment share: on a fatal template
\* extract_pdf_fields_all and fill_pdf_with_pdfrw raise, the fill changes no
\* field and writes no output, and the catalog build of app.py stops without a
\* catalog.
FatalAborts ==
  /\ op = "extract_pdf_fields_all" => (ret.raised # "" /\ ret.order = <<>> /\ ret.merged = EmptyDict)
  /\ op = "fill_pdf_with_pdfrw" =>
       (ret.raised # "" /\ ret.doc = template /\ ~ret.written /\ ret.count = 0)
  /\ op = "load_template" =>
       (ret.error # "" /\ ret.stopped /\ ret.pdf_fields = <<>>
        /\ ret.pdf_field_types = EmptyDict /\ ret.rect_index = EmptyDict)

\* C10 as stated: on a template without form root or with XFA each of the
\* three functions raises, build_field_rect_index included.
C10_Original ==
  Fatal(template) =>
    /\ FatalAborts
    /\ op = "build_field_rect_index" => ret.raised # ""

\* C10 amended: on a template without form root or with XFA,
\* extract_pdf_fields_all and fill_pdf_with_pdfrw raise, no field is modified,
\* no output is written, and the catalog build of app.py, which calls
\* extract_pdf_fields_all first, stops with no catalog; build_field_rect_index
\* itself checks neither and returns its index.
C10_Amended ==
  Fatal(template) =>
    /\ FatalAborts
    /\ op = "build_field_rect_index" =>
         (ret.raised = "" /\ ret.page_count = Len(template.pages))

\* C10 witness: the catalog build stopped on an XFA template that has a field.
C10_Witness ==
  /\ op = "load_template"
  /\ template.acro.XFA
  /\ template.Fields # <<>>
  /\ ret.stopped

\* ---------------------------------------------------------------------- C11
\* C11 as stated: fill_pdf_with_pdfrw raises on a template iff
\* extract_pdf_fields_all raises on it.
C11_Original ==
  op = "fill_pdf_with_pdfrw" =>
    ((ret.raised # "") <=> (extract_pdf_fields_all(template).raised # ""))

\* C11 amended: fill_pdf_with_pdfrw makes the two checks of
\* extract_pdf_fields_all (form root missing, XFA detected) and one more: it
\* raises iff extract_pdf_fields_all raises on that template or the form
\* root's Fields list is absent or empty; extract_pdf_fields_all raises only
\* when the form root is missing or XFA is detected.
C11_Amended ==
  op = "fill_pdf_with_pdfrw" =>
    /\ (ret.raised # "") <=>
         (extract_pdf_fields_all(template).raised # "" \/ template.Fields = <<>>)
    /\ (extract_pdf_fields_all(template).raised # "") <=> Fatal(template)

\* C11 witness: a template whose one field is a widget of a page, not wired
\* into AcroForm.Fields: the catalog lists it and the fill raises.
C11_Witness ==
  /\ op = "fill_pdf_with_pdfrw"
  /\ ~Fatal(template)
  /\ template.Fields = <<>>
  /\ extract_pdf_fields_all(template).order = <<sAgree>>
  /\ ret.raised # ""
  /\ ~ret.written

\* ---------------------------------------------------------------------- C16
\* The nodes below node f in the tree.
RECURSIVE Descendants(_, _)
Descendants(obj, f) ==
  Range(obj[f].Kids) \cup UNION {Descendants(obj, k) : k \in Range(obj[f].Kids)}

\* The nodes reachable from a list of nodes through /Kids links.
Reachable(obj, field_list) ==
  Range(field_list) \cup UNION {Descendants(obj, f) : f \in Range(field_list)}

\* The position of node f in a sequence that holds it.
PositionIn(seq, f) == CHOOSE i \in 1..Len(seq) : seq[i] = f

\* The nodes of a list come in the sequence in the order of the list.
InListOrder(seq, list) ==
  \A a, b \in 1..Len(list) :
    a < b => PositionIn(seq, list[a]) < PositionIn(seq, list[b])

\* C16: iter_fields yields every node reachable through /Kids links from the
\* list exactly once, in depth-first pre-order: right after each node come
\* all its descendants and nothing else, siblings come in list order, and an
\* empty or absent list yields nothing.
C16_PreOrder ==
  op = "iter_fields" =>
    LET obj == template.obj
        seq == ret.yielded
    IN  /\ Range(seq) = Reachable(obj, arg.field_list)
        /\ Len(seq) = Cardinality(Reachable(obj, arg.field_list))
        /\ \A i \in 1..Len(seq) :
             /\ i + Cardinality(Descendants(obj, seq[i])) <= Len(seq)
             /\ {seq[j] : j \in (i + 1)..(i + Cardinality(Descendants(obj, seq[i])))}
                  = Descendants(obj, seq[i])
        /\ InListOrder(seq, arg.field_list)
        /\ \A f \in Range(seq) : InListOrder(seq, obj[f].Kids)
        /\ arg.field_list = <<>> => seq = <<>>

\* C16 witness: node 1 with kid 3, which has kid 4, and node 2 after node 1 at
\* the top level: the walk goes down to 4 before it comes to 2.
C16_Witness ==
  /\ op = "iter_fields"
  /\ arg.field_list = <<1, 2>>
  /\ template.obj[1].Kids = <<3>>
  /\ template.obj[3].Kids = <<4>>
  /\ ret.yielded = <<1, 3, 4, 2>>

\* ---------------------------------------------------------------------- C17
\* The nodes extract_pdf_fields_all looks at, in its order: the tree as
\* iter_fields walks it, then the widget annotations page by page.
RECURSIVE WidgetsOf(_, _)
WidgetsOf(obj, ids) ==
  IF ids = <<>> THEN <<>>
  ELSE (IF obj[Head(ids)].Subtype = Widget THEN <<Head(ids)>> ELSE <<>>)
         \o WidgetsOf(obj, Tail(ids))

RECURSIVE PageWidgetSeq(_, _)
PageWidgetSeq(obj, pages) ==
  IF pages = <<>> THEN <<>>
  ELSE WidgetsOf(obj, Head(pages)) \o PageWidgetSeq(obj, Tail(pages))

NodesInOrder(t) == iter_fields(t.obj, t.Fields) \o PageWidgetSeq(t.obj, t.pages)

\* The first position of a node named nm in the node order.
FirstOccurrence(t, nm) ==
  CHOOSE i \in 1..Len(NodesInOrder(t)) :
    /\ clean_field_name(t.obj[NodesInOrder(t)[i]].T) = nm
    /\ \A j \in 1..(i - 1) : clean_field_name(t.obj[NodesInOrder(t)[j]].T) # nm

\* C17: the name list of extract_pdf_fields_all holds each non-empty cleaned
\* name of a tree node or page widget exactly once, in the order of the first
\* occurrences (tree in walker order, then the pages), holds nothing for a
\* node without a name, and the keys of the type map are the names of the
\* list.
C17_NameList ==
  Extracted =>
    LET names == {clean_field_name(template.obj[f].T) :
                    f \in Visited(template) \cup PageWidgets(template)} \ {NoName}
    IN  /\ Range(ret.order) = names
        /\ Len(ret.order) = Cardinality(names)
        /\ \A i, j \in 1..Len(ret.order) :
             i < j => FirstOccurrence(template, ret.order[i])
                        < FirstOccurrence(template, ret.order[j])
        /\ DOMAIN ret.merged = Range(ret.order)

\* C17 witness: a tree node "(Agree)" and a page widget "( Agree )" that is
\* not in the tree: the list holds Agree once.
C17_Witness ==
  /\ Extracted
  /\ ret.order = <<sAgree>>
  /\ Len(NodesInOrder(template)) = 2
  /\ \E f \in Visited(template), a \in PageWidgets(template) \ Visited(template) :
       /\ template.obj[f].T # template.obj[a].T
       /\ clean_field_name(template.obj[f].T) = sAgree
       /\ clean_field_name(template.obj[a].T) = sAgree

\* ---------------------------------------------------------------------- C18
\* C18: for a name that extract_pdf_fields_all gives the type
\* checkbox_or_radio, fill_pdf_with_pdfrw writes no text string as the value
\* of a filled node of that name and leaves that node's appearance
\* dictionary, whether or not the node has the field type Btn itself.
C18_TypeAgreement ==
  Filled =>
    LET types == extract_pdf_fields_all(template).merged
    IN  \A f \in Visited(template) :
          (Mapped(f) /\ NameOf(f) \in DOMAIN types
             /\ types[NameOf(f)] = "checkbox_or_radio") =>
            /\ ret.doc.obj[f].V.t # "string"
            /\ ret.doc.obj[f].AP = template.obj[f].AP

\* ------------------------------------------------------------ batch claims
InBatch == op \in {"batch", "batch_done"}

\* ---------------------------------------------------------------------- C12
\* C12: when the batch over N rows has ended, the report has exactly N
\* entries, the k-th for row k, whatever happened in a row (the fill raising,
\* or a failure after the fill returned); an entry is OK iff the fill
\* returned a count above 0 without exception, ZERO_FILLED iff it returned 0
\* without exception, ERROR iff an exception was raised.
C12_Report ==
  op = "batch_done" =>
    /\ Len(ret.report_rows) = Len(arg.df_master)
    /\ \A k \in 1..Len(ret.report_rows) :
         LET e == ret.report_rows[k]
         IN  /\ e.row = k
             /\ (e.status = "OK") <=> (e.error = "" /\ e.filled_fields > 0)
             /\ (e.status = "ZERO_FILLED") <=> (e.error = "" /\ e.filled_fields = 0)
             /\ (e.status = "ERROR") <=> (e.error # "")

\* ---------------------------------------------------------------------- C13
\* C13: in a batch the template file stays as uploaded, no row's output path
\* is the template's path or that of another row, and the document produced
\* for a row is the fill of the uploaded template with that row, the mapping
\* and the rules.
C13_Isolation ==
  InBatch =>
    /\ ret.tmp_dir[pdf_path] = template
    /\ \A k \in 1..Len(ret.report_rows) : ret.report_rows[k].file # pdf_path
    /\ \A j, k \in 1..Len(ret.report_rows) :
         ret.report_rows[j].row # ret.report_rows[k].row =>
           ret.report_rows[j].file # ret.report_rows[k].file
    /\ \A n \in 1..Len(ret.out_files), k \in 1..Len(ret.report_rows) :
         (ret.out_files[n].name = ret.report_rows[k].file
            /\ ret.report_rows[k].status # "ERROR") =>
           ret.out_files[n].data =
             fill_pdf_with_pdfrw(template, arg.df_master[ret.report_rows[k].row],
                                 arg.mapping, arg.rules).doc

\* ---------------------------------------------------------- session claims
\* The last step was an import (only an import shows an outcome), and the
\* file imported was raw.
JustImported(raw) ==
  /\ op = "session"
  /\ ret.shown.outcome # ""
  /\ ret.last_import_hash.set
  /\ ret.last_import_hash.raw = raw

\* The last step imported the export the user holds, with the template and
\* the data source of the export still loaded.
ImportedOwnExport ==
  /\ op = "session"
  /\ ret.exported.made
  /\ JustImported(ret.exported.raw)
  /\ arg.files = ret.exported.files

\* Every entry of the exported configuration names a column of the data
\* source (mapping) or a field of the template (rules).
ExportResolvable ==
  /\ \A f \in DOMAIN ret.exported.mapping :
       InList(ret.exported.mapping[f], ret.exported.files.df_columns)
  /\ \A f \in DOMAIN ret.exported.rules : InList(f, ret.exported.files.pdf_fields)

ResolvableMapping(obj) ==
  Restrict(obj.mapping,
           {f \in DOMAIN obj.mapping : InList(obj.mapping[f], arg.files.df_columns)})
ResolvableRules(obj) ==
  Restrict(obj.rules, {f \in DOMAIN obj.rules : InList(f, arg.files.pdf_fields)})
HasUnresolvable(obj) ==
  \/ DOMAIN ResolvableMapping(obj) # DOMAIN obj.mapping
  \/ DOMAIN ResolvableRules(obj) # DOMAIN obj.rules

====
